---- MODULE Spec2Model ----
(***************************************************************************)
(* Model of script.py: a paginated marketplace scraper with a per-page     *)
(* file cache.  The state is the cache directory, the clock, and the       *)
(* position of main() / get_marketplace_models() in the current run.       *)
(***************************************************************************)
EXTENDS Integers, Sequences, FiniteSets, TLC

\* ---------------------------------------------------------------- bounds
MaxPage == 2          \* the driver is explored up to this page number
MaxTime == 2          \* the clock runs from 0 to MaxTime
MaxKeyPage == 11      \* cache keys are computed for pages 1..MaxKeyPage
MaxFamLen == 2        \* ... and for family filters of up to this many characters

\* ------------------------------------------------------ program constants
PageSize == 20        \* "GitHub usually returns 20 items per page"

Pages == 1..MaxPage

\* cache_timeout values explored (seconds, scaled to the model clock)
Timeouts == {1}

\* two consecutive invocations of main() are explored
Runs == {1, 2}

\* float('inf') as passed to load_cached_data by the fallback
Inf == -1

\* ------------------------------------------------------------ raw records
\* A raw record is a mapping with some of its fields absent.
RawA == [name |-> "a"]
RawB == [name |-> "b", friendly_name |-> "B"]

Rep(n, r) == [i \in 1..n |-> r]

Twenty == Rep(PageSize, RawA)
Five == Rep(5, RawB)

\* the "results" arrays the upstream API answers with
ResultLists == {<< >>, Five, Twenty}

\* data.get("next_page_url"): the body has no such field, the field is null,
\* the field is an empty string, the field is a URL
NoField == "<absent>"
JsonNull == "<null>"
NextUrl == "https://next"
UrlValues == {NoField, JsonNull, "", NextUrl}

\* Python truthiness of data.get("next_page_url")
Truthy(v) == v \notin {NoField, JsonNull, ""}

\* Outcomes of requests.get / raise_for_status / response.json
Responses ==
    {[kind |-> "transport"], [kind |-> "status"], [kind |-> "badjson"]}
    \cup {[kind |-> "ok", results |-> l, next_page_url |-> n] :
            l \in ResultLists, n \in {NoField, NextUrl}}

NoResponse == [kind |-> "norequest"]

\* Outcomes of save_to_cache: written; mkdir/open raised (file untouched);
\* open truncated the file and json.dump raised part-way.
SaveOutcomes == {"ok", "fail_before", "fail_partial"}

\* --------------------------------------------------------- configuration
\* A string is the sequence of its characters.  config.model_family is a
\* string or None; None is the one-element sequence NoFamily, which no
\* string equals.
NoFamily == <<"<None>">>
DeepSeek == <<"D", "e", "e", "p", "S", "e", "e", "k">>
Families == {NoFamily, DeepSeek}

\* ------------------------------------------------------------ cache files
NoFile == [kind |-> "nofile"]
None == [kind |-> "none"]
Garbage == [kind |-> "garbage"]

\* str(n) for n >= 0, as the sequence of its decimal digits
Digit(d) == <<"0", "1", "2", "3", "4", "5", "6", "7", "8", "9">>[d + 1]

RECURSIVE Str(_)
Str(n) == IF n < 10 THEN <<Digit(n)>> ELSE Str(n \div 10) \o <<Digit(n % 10)>>

\* variant: the family is appended without the "_" separator
get_cache_path_nosep(family, p) ==
    LET cache_key == <<"models_page">> \o Str(p)
    IN  (IF family # NoFamily /\ family # << >>
         THEN cache_key \o family
         ELSE cache_key) \o <<".json">>

\* The file name under config.cache_dir, as a sequence of characters; the
\* fixed prefix "models_page" and the fixed suffix ".json" are one element
\* each.  "if config.model_family:" is false for None and for "".
get_cache_path(family, p) ==
    LET cache_key == <<"models_page">> \o Str(p)
    IN  (IF family # NoFamily /\ family # << >>
         THEN cache_key \o <<"_">> \o family
         ELSE cache_key) \o <<".json">>

Paths == {get_cache_path(f, p) : f \in Families, p \in Pages}

\* variant: an entry whose age equals max_age counts as expired
load_cached_data_strict(f, max_age, t) ==
    IF f.kind = "nofile" THEN [data |-> None, log |-> {}]
    ELSE IF max_age # Inf /\ t - f.mtime >= max_age
         THEN [data |-> None, log |-> {"cache_expired"}]
    ELSE IF f.content.kind = "garbage"
         THEN [data |-> None, log |-> {"cache_load_warning"}]
    ELSE [data |-> f.content, log |-> {"using_cached"}]

\* variant: the age of the file is not looked at
load_cached_data_noexpiry(f, max_age, t) ==
    IF f.kind = "nofile" THEN [data |-> None, log |-> {}]
    ELSE IF f.content.kind = "garbage"
         THEN [data |-> None, log |-> {"using_cached", "cache_load_warning"}]
    ELSE [data |-> f.content, log |-> {"using_cached"}]

load_cached_data(f, max_age, t) ==
    IF f.kind = "nofile" THEN [data |-> None, log |-> {}]
    ELSE IF max_age # Inf /\ t - f.mtime > max_age
         THEN [data |-> None, log |-> {"cache_expired"}]
    ELSE IF f.content.kind = "garbage"
         THEN [data |-> None, log |-> {"using_cached", "cache_load_warning"}]
    ELSE [data |-> f.content, log |-> {"using_cached"}]

\* variant: nothing reaches the disk although no error is reported
save_to_cache_lost(data, f, t, sv) ==
    IF sv = "ok"
    THEN [file |-> f, raised |-> FALSE, log |-> {}]
    ELSE [file |-> f, raised |-> TRUE, log |-> {"save_error"}]

\* variant: the has_next_page flag is not stored with the entry
save_to_cache_noflag(data, f, t, sv) ==
    IF sv = "ok"
    THEN [file |-> [kind |-> "file", mtime |-> t,
                    content |-> [data EXCEPT !.has_next_page = FALSE]],
          raised |-> FALSE, log |-> {}]
    ELSE IF sv = "fail_before"
    THEN [file |-> f, raised |-> TRUE, log |-> {"save_error"}]
    ELSE [file |-> [kind |-> "file", mtime |-> t, content |-> Garbage],
          raised |-> TRUE, log |-> {"save_error"}]

\* result of save_to_cache: the file afterwards and whether CacheError is raised
save_to_cache(data, f, t, sv) ==
    IF sv = "ok"
    THEN [file |-> [kind |-> "file", mtime |-> t, content |-> data],
          raised |-> FALSE, log |-> {}]
    ELSE IF sv = "fail_before"
    THEN [file |-> f, raised |-> TRUE, log |-> {"save_error"}]
    ELSE [file |-> [kind |-> "file", mtime |-> t, content |-> Garbage],
          raised |-> TRUE, log |-> {"save_error"}]

\* variant: a page of 20 records or more counts as full
HasNextPage_atleast(resp) ==
    Truthy(resp.next_page_url) \/ Len(resp.results) >= PageSize

\* bool(data.get("next_page_url") or (len(models) == 20))
HasNextPage(resp) ==
    Truthy(resp.next_page_url) \/ Len(resp.results) = PageSize

Returned(models, has_next_page, f, http, wrote, src, log) ==
    [exc |-> "none", models |-> models, has_next_page |-> has_next_page,
     file |-> f, http |-> http, wrote |-> wrote, src |-> src, log |-> log]

Raised(exc, f, http, log) ==
    [exc |-> exc, models |-> << >>, has_next_page |-> FALSE,
     file |-> f, http |-> http, wrote |-> FALSE, src |-> "error", log |-> log]

\* variant: the fallback read still applies an expiry
FetchFallback_expiring(f, t, log) ==
    IF f.kind # "nofile"
    THEN LET c == load_cached_data(f, 0, t)
             lg == log \cup {"fetch_error", "fallback_warning"} \cup c.log
         IN  IF c.data.kind = "entry"
             THEN Returned(c.data.models, c.data.has_next_page, f, 1, FALSE,
                           "fallback", lg)
             ELSE Raised("CacheError", f, 1, lg)
    ELSE Raised("CacheError", f, 1, log \cup {"fetch_error"})

\* variant: without any cache file an empty page is returned
FetchFallback_empty(f, t, log) ==
    IF f.kind # "nofile"
    THEN LET c == load_cached_data(f, Inf, t)
             lg == log \cup {"fetch_error", "fallback_warning"} \cup c.log
         IN  IF c.data.kind = "entry"
             THEN Returned(c.data.models, c.data.has_next_page, f, 1, FALSE,
                           "fallback", lg)
             ELSE Raised("CacheError", f, 1, lg)
    ELSE Returned(<< >>, FALSE, f, 1, FALSE, "fallback",
                  log \cup {"fetch_error"})

\* the except branch of fetch_page_with_cache: f is the file as it is now
FetchFallback(f, t, log) ==
    IF f.kind # "nofile"
    THEN LET c == load_cached_data(f, Inf, t)
             lg == log \cup {"fetch_error", "fallback_warning"} \cup c.log
         IN  IF c.data.kind = "entry"
             THEN Returned(c.data.models, c.data.has_next_page, f, 1, FALSE,
                           "fallback", lg)
             ELSE Raised("CacheError", f, 1, lg)
    ELSE Raised("CacheError", f, 1, log \cup {"fetch_error"})

fetch_page_with_cache(f, cache_timeout, t, resp, sv) ==
    LET cached == load_cached_data(f, cache_timeout, t)
    IN  IF cached.data.kind # "none"
        THEN Returned(cached.data.models, cached.data.has_next_page, f, 0,
                      FALSE, "hit", cached.log)
        ELSE IF resp.kind = "ok"
        THEN LET models == resp.results
                 has_next_page == HasNextPage(resp)
                 cache_data == [kind |-> "entry", models |-> models,
                                has_next_page |-> has_next_page,
                                cached_at |-> t]
                 s == save_to_cache(cache_data, f, t, sv)
             IN  IF s.raised
                 THEN FetchFallback(s.file, t, cached.log \cup s.log)
                 ELSE Returned(models, has_next_page, s.file, 1, TRUE, "net",
                               cached.log)
        ELSE FetchFallback(f, t, cached.log)

\* ---------------------------------------------------------- normalization
\* dict.get(k, default)
Get(m, k, default) == IF k \in DOMAIN m THEN m[k] ELSE default

PyNone == "<None>"

\* variant: a missing field does not default to the record's name
Normalize_noname(model, p) ==
    [id |-> Get(model, "original_name", PyNone),
     name |-> Get(model, "friendly_name", PyNone),
     original_name |-> Get(model, "original_name", PyNone),
     friendly_name |-> Get(model, "friendly_name", PyNone),
     page |-> p]

Normalize(model, p) ==
    [id |-> Get(model, "original_name", Get(model, "name", PyNone)),
     name |-> Get(model, "friendly_name", Get(model, "name", PyNone)),
     original_name |-> Get(model, "original_name", Get(model, "name", PyNone)),
     friendly_name |-> Get(model, "friendly_name", Get(model, "name", PyNone)),
     page |-> p]

\* variant: the page field is the page about to be fetched next
YieldPage_next(models, p) ==
    [i \in 1..Len(models) |-> Normalize(models[i], p + 1)]

\* the records yielded for one page, in order
YieldPage(models, p) == [i \in 1..Len(models) |-> Normalize(models[i], p)]

\* variant: the driver loop has no except clause
Catches_nothing(exc) == FALSE

\* the except clause of the driver loop
Catches(exc) == exc = "CacheError"

\* variant: the page number is not advanced
NextPage_same(p) == p

\* "page += 1"
NextPage(p) == p + 1

\* variant: only an empty page ends the loop
StopAfter_emptyonly(models, has_next_page) == models = << >>

\* variant: an empty page does not end the loop
StopAfter_flagonly(models, has_next_page) == ~has_next_page

\* "if not has_next_page or not models: break"
StopAfter(models, has_next_page) == ~has_next_page \/ models = << >>

\* ------------------------------------------------------------------ state
VARIABLES
    now,            \* time.time()
    cache,          \* cache directory: path -> file
    run,            \* number of invocations of main() started so far
    pc,             \* "idle", "fetch", "crashed", "exit"
    model_family,   \* config.model_family of the current run
    cache_timeout,  \* config.cache_timeout of the current run
    page,           \* the driver's page variable
    out,            \* records yielded so far in the current run
    calls,          \* what each fetch_page_with_cache call of this run gave
    last,           \* the most recent call: what it found, got and did
    prev,           \* what the previous run yielded, fetched and left behind
    probe           \* a function applied on its own: its inputs and its result

vars == <<now, cache, run, pc, model_family, cache_timeout, page, out, calls,
          last, prev, probe>>

EmptyCache == [p \in Paths |-> NoFile]

NoCall == [page |-> 0]

NoProbe == [op |-> "none"]

NoPrev == [run |-> 0, out |-> << >>, cache |-> EmptyCache, paths |-> {},
           written |-> {}, model_family |-> NoFamily, cache_timeout |-> 1]

Init ==
    /\ now = 0
    /\ cache = EmptyCache
    /\ run = 0
    /\ pc = "idle"
    /\ model_family = DeepSeek
    /\ cache_timeout \in Timeouts
    /\ page = 1
    /\ out = << >>
    /\ calls = << >>
    /\ last = NoCall
    /\ prev = NoPrev
    /\ probe = NoProbe

\* main(): build the configuration and start consuming the generator.  The
\* program is run again with the options it was run with before.
StartRun ==
    /\ pc \in {"idle", "exit"}
    /\ run + 1 \in Runs
    /\ UNCHANGED <<model_family, cache_timeout>>
    /\ run' = run + 1
    /\ prev' = [run |-> run, out |-> out, cache |-> cache,
                 paths |-> {calls[i].path : i \in DOMAIN calls},
                 written |-> {calls[i].path : i \in
                                {j \in DOMAIN calls : calls[j].wrote}},
                 model_family |-> model_family,
                 cache_timeout |-> cache_timeout]
    /\ pc' = "fetch"
    /\ page' = 1
    /\ out' = << >>
    /\ calls' = << >>
    /\ last' = NoCall
    /\ UNCHANGED <<now, cache, probe>>

\* One iteration of the while loop of get_marketplace_models, for a given
\* answer of the network and a given outcome of the cache write.  When the
\* loop ends, list() returns in main (pc = "exit") and main goes on to
\* present the list; an exception that the loop does not catch ends main
\* with nothing collected (pc = "crashed").
Iteration(resp, sv) ==
    LET path == get_cache_path(model_family, page)
        before == cache[path]
        res == fetch_page_with_cache(before, cache_timeout, now, resp, sv)
        yielded == out \o YieldPage(res.models, page)
    IN  /\ cache' = [cache EXCEPT ![path] = res.file]
        /\ calls' = Append(calls,
                [page |-> page, path |-> path, exc |-> res.exc,
                 models |-> res.models, has_next_page |-> res.has_next_page,
                 src |-> res.src, http |-> res.http, wrote |-> res.wrote])
        /\ last' =
                [page |-> page, path |-> path, before |-> before, t |-> now,
                 resp |-> IF res.http = 1 THEN resp ELSE NoResponse,
                 sv |-> IF res.http = 1 /\ resp.kind = "ok" THEN sv ELSE "none",
                 res |-> [exc |-> res.exc, models |-> res.models,
                          has_next_page |-> res.has_next_page,
                          http |-> res.http, src |-> res.src,
                          log |-> res.log]]
        /\ IF res.exc = "none"
           THEN /\ out' = yielded
                /\ IF StopAfter(res.models, res.has_next_page)
                   THEN pc' = "exit" /\ page' = page
                   ELSE pc' = "fetch" /\ page' = NextPage(page)
           ELSE IF Catches(res.exc)
           THEN pc' = "exit" /\ page' = page /\ out' = out
           ELSE pc' = "crashed" /\ page' = page /\ out' = << >>

\* The page is served from a fresh cache entry.
FetchHit ==
    /\ pc = "fetch" /\ page <= MaxPage
    /\ LET r == load_cached_data(cache[get_cache_path(model_family, page)],
                                 cache_timeout, now)
       IN r.data.kind # "none"
    /\ Iteration(NoResponse, "none")
    /\ UNCHANGED <<now, run, model_family, cache_timeout, prev, probe>>

CacheMiss ==
    load_cached_data(cache[get_cache_path(model_family, page)],
                     cache_timeout, now).data.kind = "none"

\* The request succeeds and the cache entry is written.
FetchNetwork ==
    /\ pc = "fetch" /\ page <= MaxPage
    /\ CacheMiss
    /\ \E resp \in Responses :
        /\ resp.kind = "ok"
        /\ Iteration(resp, "ok")
    /\ UNCHANGED <<now, run, model_family, cache_timeout, prev, probe>>

\* The request succeeds and save_to_cache raises.
FetchSaveFails ==
    /\ pc = "fetch" /\ page <= MaxPage
    /\ CacheMiss
    /\ \E resp \in Responses, sv \in SaveOutcomes \ {"ok"} :
        /\ resp.kind = "ok"
        /\ Iteration(resp, sv)
    /\ UNCHANGED <<now, run, model_family, cache_timeout, prev, probe>>

\* The request fails: transport error, non-2xx status or malformed body.
FetchRequestFails ==
    /\ pc = "fetch" /\ page <= MaxPage
    /\ CacheMiss
    /\ \E resp \in Responses :
        /\ resp.kind # "ok"
        /\ Iteration(resp, "none")
    /\ UNCHANGED <<now, run, model_family, cache_timeout, prev, probe>>

\* The clock advances.  It is read by load_cached_data only, so it is moved
\* only where a later fetch can still read it: between two page fetches and
\* between two runs.
Tick ==
    /\ now < MaxTime
    /\ \/ pc = "fetch" /\ page <= MaxPage
       \/ pc = "exit" /\ run + 1 \in Runs
    /\ now' = now + 1
    /\ UNCHANGED <<cache, run, pc, model_family, cache_timeout, page, out,
                   calls, last, prev, probe>>

Next ==
    \/ StartRun
    \/ FetchHit
    \/ FetchRequestFails
    \/ FetchNetwork
    \/ FetchSaveFails
    \/ Tick

Spec == Init /\ [][Next]_vars

\* ------------------------------------------------------------ finite runs
\* The upstream listing is finite: from page MaxPage on, no page answers
\* with records together with a has_next_page that is true.
FetchNetworkFinite ==
    /\ pc = "fetch" /\ page <= MaxPage
    /\ CacheMiss
    /\ \E resp \in Responses :
        /\ resp.kind = "ok"
        /\ page = MaxPage => (resp.results = << >> \/ ~HasNextPage(resp))
        /\ Iteration(resp, "ok")
    /\ UNCHANGED <<now, run, model_family, cache_timeout, prev, probe>>

\* time passes between two runs
Wait == pc = "exit" /\ Tick

\* one iteration of the while loop, however the fetch goes
LoopStep == FetchHit \/ FetchRequestFails \/ FetchNetworkFinite \/ FetchSaveFails

NextFinite ==
    \/ StartRun
    \/ FetchHit
    \/ FetchRequestFails
    \/ FetchNetworkFinite
    \/ FetchSaveFails
    \/ Wait

\* The loop is straight-line code around blocking calls: once entered, an
\* iteration runs to its end.  Nothing obliges the user to run main again.
SpecFinite == Init /\ [][NextFinite]_vars /\ WF_vars(LoopStep)

\* ------------------------------------------------- functions on their own
\* The functions of the program that depend on their arguments only are
\* also applied on their own, to arguments drawn from the sets below.

\* family filters: None and every string over KeyChars up to MaxFamLen
KeyChars == {"1", "_"}
KeyFamilies == {NoFamily} \cup UNION {[1..k -> KeyChars] : k \in 0..MaxFamLen}
KeyPages == 1..MaxKeyPage

KeyInputs ==
    {[op |-> "key", done |-> FALSE, page_a |-> pa, family_a |-> fa,
      page_b |-> pb, family_b |-> fb, path_a |-> << >>, path_b |-> << >>] :
        pa \in KeyPages, fa \in KeyFamilies,
        pb \in KeyPages, fb \in KeyFamilies}

\* raw records: every choice of which of the three name fields are present
RawFields == {"name", "friendly_name", "original_name"}
RawRecords == UNION {[S -> {"a", "b"}] : S \in SUBSET RawFields}

NormalizeInputs ==
    {[op |-> "normalize", done |-> FALSE, raw |-> r, page |-> p,
      record |-> None] : r \in RawRecords, p \in Pages}

\* response bodies around the page size, with every kind of next_page_url
BodySizes == {0, 1, PageSize - 1, PageSize, PageSize + 1}
Bodies ==
    {[kind |-> "ok", results |-> Rep(n, RawA), next_page_url |-> u] :
        n \in BodySizes, u \in UrlValues}

FetchInputs ==
    {[op |-> "fetch", done |-> FALSE, resp |-> b, sv |-> sv, res |-> None] :
        b \in Bodies, sv \in SaveOutcomes}

\* cache files of every kind and age, read twice under one max_age
Entry0 == [kind |-> "entry", models |-> <<RawA>>, has_next_page |-> FALSE,
           cached_at |-> 0]
ProbeFiles ==
    {NoFile} \cup {[kind |-> "file", mtime |-> m, content |-> c] :
                     m \in 0..MaxTime, c \in {Garbage, Entry0}}
MaxAges == Timeouts \cup {0, Inf}

LoadInputs ==
    {[op |-> "load", done |-> FALSE, file |-> f, max_age |-> a,
      t1 |-> t1, t2 |-> t2, first |-> None, second |-> None] :
        f \in ProbeFiles, a \in MaxAges, t1 \in 0..MaxTime, t2 \in 0..MaxTime}

InitPure ==
    /\ now = 0
    /\ cache = EmptyCache
    /\ run = 0
    /\ pc = "idle"
    /\ model_family = DeepSeek
    /\ cache_timeout \in Timeouts
    /\ page = 1
    /\ out = << >>
    /\ calls = << >>
    /\ last = NoCall
    /\ prev = NoPrev
    /\ \/ probe \in KeyInputs
       \/ probe \in NormalizeInputs
       \/ probe \in FetchInputs
       \/ probe \in LoadInputs

\* get_cache_path for two (page, family) pairs
ApplyKey ==
    /\ probe.op = "key" /\ ~probe.done
    /\ probe' = [probe EXCEPT
                   !.done = TRUE,
                   !.path_a = get_cache_path(probe.family_a, probe.page_a),
                   !.path_b = get_cache_path(probe.family_b, probe.page_b)]
    /\ UNCHANGED <<now, cache, run, pc, model_family, cache_timeout, page,
                   out, calls, last, prev>>

\* the dict yielded for one raw record
ApplyNormalize ==
    /\ probe.op = "normalize" /\ ~probe.done
    /\ probe' = [probe EXCEPT !.done = TRUE,
                              !.record = Normalize(probe.raw, probe.page)]
    /\ UNCHANGED <<now, cache, run, pc, model_family, cache_timeout, page,
                   out, calls, last, prev>>

\* fetch_page_with_cache on a path without a cache file
ApplyFetch ==
    /\ probe.op = "fetch" /\ ~probe.done
    /\ probe' = [probe EXCEPT
                   !.done = TRUE,
                   !.res = fetch_page_with_cache(NoFile, cache_timeout, now,
                                                 probe.resp, probe.sv)]
    /\ UNCHANGED <<now, cache, run, pc, model_family, cache_timeout, page,
                   out, calls, last, prev>>

\* load_cached_data on one file at two moments
ApplyLoad ==
    /\ probe.op = "load" /\ ~probe.done
    /\ probe.file.kind = "file" => probe.file.mtime <= probe.t1
    /\ probe.t1 <= probe.t2
    /\ probe' = [probe EXCEPT
                   !.done = TRUE,
                   !.first = load_cached_data(probe.file, probe.max_age,
                                              probe.t1).data,
                   !.second = load_cached_data(probe.file, probe.max_age,
                                               probe.t2).data]
    /\ UNCHANGED <<now, cache, run, pc, model_family, cache_timeout, page,
                   out, calls, last, prev>>

NextPure == ApplyKey \/ ApplyNormalize \/ ApplyFetch \/ ApplyLoad

SpecPure == InitPure /\ [][NextPure]_vars

\* ================================================================ claims
\* Vocabulary of the claims.  `last` is the call that has just been made;
\* every call of every run is `last` in the state that follows it.

Called == last.page > 0

ValidEntry(f) == f.kind = "file" /\ f.content.kind = "entry"

\* the entry found by the call existed and was not older than the timeout
FreshBefore(c) ==
    ValidEntry(c.before) /\ c.t - c.before.mtime <= cache_timeout

\* the entry found by the call existed and was older than the timeout
StaleBefore(c) ==
    ValidEntry(c.before) /\ c.t - c.before.mtime > cache_timeout

RequestFailed(c) == c.resp.kind \in {"transport", "status", "badjson"}

RequestSucceeded(c) == c.resp.kind = "ok"

SaveFailed(c) == c.sv \in {"fail_before", "fail_partial"}

ReturnsEntry(c, e) ==
    /\ c.res.exc = "none"
    /\ c.res.models = e.models
    /\ c.res.has_next_page = e.has_next_page

ReturnsResponse(c) ==
    /\ c.res.exc = "none"
    /\ c.res.models = c.resp.results
    /\ c.res.has_next_page =
         (c.resp.next_page_url # NoField \/ Len(c.resp.results) = 20)

HttpCount == Cardinality({i \in DOMAIN calls : calls[i].http = 1})

\* records expected from the first n calls of the run, in order
RECURSIVE Expected(_)
Expected(n) ==
    IF n = 0 THEN << >>
    ELSE Expected(n - 1) \o
         [j \in 1..Len(calls[n].models) |->
            Normalize(calls[n].models[j], calls[n].page)]

\* number of raw records returned by the first n calls of the run
RECURSIVE Yielded(_)
Yielded(n) == IF n = 0 THEN 0 ELSE Yielded(n - 1) + Len(calls[n].models)

Finished == pc = "exit"

\* the list main holds after list(get_marketplace_models(config)) and presents
presented == IF pc = "exit" THEN out ELSE << >>

\* C1: a call that finds a valid entry not older than the timeout returns
\* that entry's (models, has_next_page) and issues no HTTP request.
C1_FreshHit ==
    (Called /\ FreshBefore(last)) =>
        /\ ReturnsEntry(last, last.before.content)
        /\ last.res.http = 0
        /\ last.resp = NoResponse
        /\ HttpCount = Cardinality({i \in DOMAIN calls :
                                      i < Len(calls) /\ calls[i].http = 1})

\* a hit on a non-empty entry whose age equals the timeout exactly
C1_Witness ==
    /\ Called
    /\ FreshBefore(last)
    /\ last.t - last.before.mtime = cache_timeout
    /\ last.res.src = "hit"
    /\ last.res.models # << >>

\* C2: with an expired entry and a successful HTTP request the call returns
\* what the response says, and stale contents are returned only after the
\* request failed.
C2_StaleRefetch ==
    (Called /\ StaleBefore(last)) =>
        /\ RequestSucceeded(last) => ReturnsResponse(last)
        /\ last.res.src = "fallback" => RequestFailed(last)

\* C3: with an expired entry and a failed HTTP request the call returns the
\* stale entry and the fallback warning is logged.
C3_StaleFallback ==
    (Called /\ StaleBefore(last) /\ RequestFailed(last)) =>
        /\ ReturnsEntry(last, last.before.content)
        /\ "fallback_warning" \in last.res.log

\* a fallback that served a non-empty stale page to the driver
C3_Witness ==
    /\ Called
    /\ StaleBefore(last)
    /\ RequestFailed(last)
    /\ last.res.src = "fallback"
    /\ last.res.models # << >>
    /\ out # << >>

\* C4: without a cache file, a failed HTTP request makes the fetch raise
\* CacheError and the run yields no record of that page.
C4_NoCacheNoNetwork ==
    (Called /\ last.before.kind = "nofile" /\ RequestFailed(last)) =>
        /\ last.res.exc = "CacheError"
        /\ \A k \in DOMAIN out : out[k].page # last.page
        /\ \A k \in DOMAIN presented : presented[k].page # last.page

\* page 2 fails that way after page 1 was yielded
C4_Witness ==
    /\ Len(calls) = 2
    /\ last.before.kind = "nofile"
    /\ RequestFailed(last)
    /\ last.res.exc = "CacheError"
    /\ out # << >>
    /\ pc = "exit"

\* C5: when the request succeeds and the cache write fails, the call still
\* returns the records and has_next_page of the response.
C5_SaveFailureTolerated ==
    (Called /\ RequestSucceeded(last) /\ SaveFailed(last))
        => ReturnsResponse(last)

\* C6: a failing page fetch never aborts the run nor loses the records of
\* the pages before it, and what was collected is what main presents.
C6_FailureKeepsCollected ==
    /\ pc # "crashed"
    /\ \A i \in DOMAIN calls :
          calls[i].exc # "none" =>
            /\ out = Expected(i - 1)
            /\ Finished
            /\ presented = out

\* a run presented the records of page 1 after page 2 failed
C6_Witness ==
    /\ pc = "exit"
    /\ Len(calls) = 2
    /\ calls[2].exc # "none"
    /\ out # << >>
    /\ presented = out

\* C7: pages are requested one after the other and only after a page that
\* returned records with has_next_page set; when a page comes back empty or
\* without has_next_page the loop has ended with exactly the records of the
\* pages up to that one.
C7_StopsAtLastPage ==
    /\ \A i \in DOMAIN calls : calls[i].page = i
    /\ \A i \in DOMAIN calls :
          i < Len(calls) =>
            /\ calls[i].exc = "none"
            /\ calls[i].has_next_page
            /\ calls[i].models # << >>
    /\ \A i \in DOMAIN calls :
          (calls[i].exc = "none"
             /\ (calls[i].models = << >> \/ ~calls[i].has_next_page))
            => /\ i = Len(calls)
               /\ Finished
               /\ out = Expected(i)

\* page 2 came back empty with a next_page_url: page 1 is all that is yielded
C7_Witness ==
    /\ Len(calls) = 2
    /\ calls[2].exc = "none"
    /\ calls[2].models = << >>
    /\ calls[2].has_next_page
    /\ out # << >>
    /\ pc = "exit"

SameConfig ==
    /\ prev.run >= 1
    /\ prev.model_family = model_family
    /\ prev.cache_timeout = cache_timeout

KeptFresh(p) ==
    /\ ValidEntry(cache[p])
    /\ cache[p] = prev.cache[p]
    /\ now - cache[p].mtime <= cache_timeout

SameAsPrevious == out = prev.out /\ HttpCount = 0

\* C8 as stated: if the entries the first run wrote are still unexpired, the
\* second run yields the same sequence without any HTTP request.
C8_AsStated ==
    (Finished /\ SameConfig /\ \A p \in prev.written : KeptFresh(p))
        => SameAsPrevious

\* C8 amended: if every page the first run fetched has a valid entry that is
\* unchanged since and still unexpired, the second run yields the same
\* sequence without any HTTP request.
C8_Idempotent ==
    (Finished /\ SameConfig /\ \A p \in prev.paths : KeptFresh(p))
        => SameAsPrevious

\* a second run that replayed two cached pages
C8_Witness ==
    /\ Finished
    /\ SameConfig
    /\ \A p \in prev.paths : KeptFresh(p)
    /\ Cardinality(prev.paths) = 2
    /\ Len(out) > 5

OkResponse(l, n) == [kind |-> "ok", results |-> l, next_page_url |-> n]

\* page 1 was fetched from the network into an empty cache and gave 20
\* records, page 2 has just answered 5 records without next_page_url
Scenario9 ==
    /\ prev.cache = EmptyCache
    /\ Len(calls) >= 2
    /\ calls[1].src = "net" /\ Len(calls[1].models) = 20
    /\ last.page = 2
    /\ last.resp = OkResponse(Five, NoField) /\ last.sv = "ok"

\* C9: from an empty cache, 20 records with next_page_url on page 1 and 5
\* records without it on page 2 give 25 records, page 1 on the first 20 and
\* page 2 on the last 5, and exactly two cache entries.
C9_EndToEnd ==
    Scenario9 =>
        /\ Finished
        /\ Len(calls) = 2
        /\ Len(out) = 25
        /\ presented = out
        /\ \A k \in 1..20 : out[k].page = 1 /\ out[k].name = "a"
        /\ \A k \in 21..25 : out[k].page = 2 /\ out[k].name = "B"
        /\ {p \in Paths : cache[p] # EmptyCache[p]}
             = {get_cache_path(model_family, 1), get_cache_path(model_family, 2)}
        /\ \A p \in {get_cache_path(model_family, 1),
                     get_cache_path(model_family, 2)} : ValidEntry(cache[p])

C9_Witness == Scenario9 /\ model_family = DeepSeek /\ pc = "exit"

\* C10: every yielded record carries the page number of the call that
\* returned the raw record it was built from.
C10_PageField ==
    /\ pc # "crashed" => Len(out) = Yielded(Len(calls))
    /\ \A k \in DOMAIN out : out[k].page \in Nat \ {0}
    /\ \A i \in DOMAIN calls :
          LET base == Yielded(i - 1)
          IN  \A j \in DOMAIN calls[i].models :
                /\ base + j \in DOMAIN out
                /\ out[base + j].page = calls[i].page
                /\ out[base + j] = Normalize(calls[i].models[j], calls[i].page)

\* records of a fresh hit on page 1 followed by a stale fallback on page 2
C10_Witness ==
    /\ Len(calls) = 2
    /\ calls[1].src = "hit"
    /\ calls[2].src = "fallback"
    /\ Len(out) > Len(calls[1].models)
    /\ out[Len(out)].page = 2

\* the file found by the call could not be parsed
UnreadableBefore(c) ==
    c.before.kind = "file" /\ c.before.content.kind = "garbage"

\* C11: a call that finds no file, an unparsable file or an entry older than
\* the timeout goes on to the HTTP request as a call without a cache file
\* does: it returns the response when request and write succeed, nothing but
\* CacheError ever leaves it, and that only after the request or the write
\* failed; an unparsable file leaves a warning in the log.
C11_ReadProblemIsMiss ==
    /\ pc # "crashed"
    /\ (Called /\ ~FreshBefore(last)) =>
          /\ last.res.http = 1
          /\ last.res.src # "hit"
          /\ last.res.exc \in {"none", "CacheError"}
          /\ last.res.exc = "CacheError" =>
                (RequestFailed(last) \/ SaveFailed(last))
          /\ (RequestSucceeded(last) /\ last.sv = "ok") =>
                (ReturnsResponse(last) /\ last.res.src = "net")
          /\ (UnreadableBefore(last)
                /\ last.t - last.before.mtime <= cache_timeout) =>
                "cache_load_warning" \in last.res.log

\* an unparsable file, young enough to be read, was skipped with a warning
\* and the page came from the network
C11_Witness ==
    /\ Called
    /\ UnreadableBefore(last)
    /\ last.t - last.before.mtime <= cache_timeout
    /\ "cache_load_warning" \in last.res.log
    /\ last.res.src = "net"
    /\ last.res.models # << >>
    /\ pc = "exit"

\* C12: after a call whose cache write failed, the valid entry that was
\* stored before the call is still there with its contents.
C12_FailedSaveKeepsEntry ==
    (Called /\ ValidEntry(last.before) /\ SaveFailed(last)) =>
        cache[last.path] = last.before

KeyProbed == probe.op = "key" /\ probe.done

\* the filter a family option stands for: the empty string filters nothing
EffectiveFamily(f) == IF f = << >> THEN NoFamily ELSE f

OnlyName(raw) ==
    /\ "name" \in DOMAIN raw
    /\ "friendly_name" \notin DOMAIN raw
    /\ "original_name" \notin DOMAIN raw

\* C14: a raw record with a name and neither friendly_name nor original_name
\* is yielded with id, name, original_name and friendly_name all equal to
\* that name.
C14_NameDefaults ==
    (probe.op = "normalize" /\ probe.done /\ OnlyName(probe.raw)) =>
        /\ probe.record.id = probe.raw.name
        /\ probe.record.name = probe.raw.name
        /\ probe.record.original_name = probe.raw.name
        /\ probe.record.friendly_name = probe.raw.name

\* the record {"name": "b"} of page 2 was normalized
C14_Witness ==
    /\ probe.op = "normalize" /\ probe.done
    /\ probe.raw = [name |-> "b"]
    /\ probe.page = 2
    /\ probe.record.id = "b"

NetFetched == probe.op = "fetch" /\ probe.done /\ probe.res.src = "net"

\* has_next_page is both returned and stored in the entry written
SameFlagStored ==
    /\ probe.res.file.kind = "file"
    /\ probe.res.file.content.kind = "entry"
    /\ probe.res.file.content.has_next_page = probe.res.has_next_page
    /\ probe.res.file.content.models = probe.res.models

\* C15 as stated: after a fetch from the network has_next_page is true
\* exactly when the body has a next_page_url field or exactly 20 results,
\* and the entry written stores the value returned.
C15_AsStated ==
    NetFetched =>
        /\ probe.res.has_next_page =
              (probe.resp.next_page_url # NoField
                 \/ Len(probe.resp.results) = 20)
        /\ SameFlagStored

\* C15 amended: after a fetch from the network has_next_page is true exactly
\* when the body's next_page_url is present, not null and not empty, or the
\* body has exactly 20 results, and the entry written stores the value
\* returned.
C15_NextPageFlag ==
    NetFetched =>
        /\ probe.res.has_next_page =
              (probe.resp.next_page_url \notin {NoField, JsonNull, ""}
                 \/ Len(probe.resp.results) = 20)
        /\ SameFlagStored

\* 21 results and a null next_page_url: no next page, returned and stored
C15_Witness ==
    /\ NetFetched
    /\ Len(probe.resp.results) = 21
    /\ probe.resp.next_page_url = JsonNull
    /\ ~probe.res.has_next_page
    /\ ~probe.res.file.content.has_next_page

\* the call ended the loop: it raised, came back empty, or had no next page
Stops(c) == c.exc # "none" \/ c.models = << >> \/ ~c.has_next_page

StoppedAtFirst ==
    /\ pc = "exit"
    /\ calls # << >>
    /\ Stops(calls[Len(calls)])
    /\ \A i \in DOMAIN calls : i < Len(calls) => ~Stops(calls[i])

\* C16: when only finitely many pages answer with records and has_next_page,
\* a run that is fetching eventually ends, at the first page that is empty,
\* has no next page, or fails.
C16_Terminates == (pc = "fetch") ~> StoppedAtFirst

\* a run ended at page 2, the first page that stopped it
C16_Witness ==
    /\ StoppedAtFirst
    /\ Len(calls) = 2
    /\ calls[2].exc = "none"
    /\ ~calls[2].has_next_page
    /\ Len(out) > 20

\* C17: the calls of a run are for pages 1, 2, 3, ... in that order, each
\* call makes at most one HTTP request and no path is fetched twice; after a
\* failed request the call ends with the stale entry or with CacheError,
\* never with a response.
C17_OnePassOneRequest ==
    /\ \A i \in DOMAIN calls : calls[i].page = i
    /\ \A i \in DOMAIN calls : calls[i].http \in {0, 1}
    /\ Cardinality({calls[i].path : i \in DOMAIN calls}) = Len(calls)
    /\ pc = "fetch" => page = Len(calls) + 1
    /\ (Called /\ RequestFailed(last)) =>
          /\ last.res.http = 1
          /\ last.res.src \in {"fallback", "error"}
          /\ last.res.src = "fallback" =>
                (ValidEntry(last.before)
                   /\ ReturnsEntry(last, last.before.content))

\* page 1 was requested and answered, the request for page 2 failed and the
\* stale entry of page 2 was served
C17_Witness ==
    /\ Len(calls) = 2
    /\ calls[1].http = 1 /\ calls[1].src = "net"
    /\ calls[2].http = 1
    /\ RequestFailed(last)
    /\ last.res.src = "fallback"

\* C18: a call changes no file but the one of its own path, keeps every
\* valid entry in place, and when it ends as a hit, as a stale fallback or
\* with CacheError it leaves every valid entry as it was, modification time
\* included.
C18_CacheFrame ==
    [][Len(calls') = Len(calls) + 1 =>
         /\ \A p \in Paths : p # last'.path => cache'[p] = cache[p]
         /\ \A p \in Paths : ValidEntry(cache[p]) => ValidEntry(cache'[p])
         /\ last'.res.src \in {"hit", "fallback", "error"} =>
               \A p \in Paths : ValidEntry(cache[p]) => cache'[p] = cache[p]
      ]_vars

LoadProbed == probe.op = "load" /\ probe.done

\* what a read at time t must return
Served(f, max_age, t) ==
    IF ValidEntry(f) /\ (max_age = Inf \/ t - f.mtime <= max_age)
    THEN f.content
    ELSE None

\* C19: each read returns the entry exactly when the file exists, parses and
\* is at that moment not older than max_age; with an infinite max_age every
\* readable entry is returned whatever its age.
C19_ValidityAtRead ==
    LoadProbed =>
        /\ probe.first = Served(probe.file, probe.max_age, probe.t1)
        /\ probe.second = Served(probe.file, probe.max_age, probe.t2)
        /\ (probe.max_age = Inf /\ ValidEntry(probe.file)) =>
              (probe.first = probe.file.content
                 /\ probe.second = probe.file.content)

\* an entry read at the age of max_age exactly and served, then read later
\* and expired
C19_Witness ==
    /\ LoadProbed
    /\ ValidEntry(probe.file)
    /\ probe.max_age = 1
    /\ probe.t1 - probe.file.mtime = probe.max_age
    /\ probe.first = probe.file.content
    /\ probe.t2 > probe.t1
    /\ probe.second = None

PagesOf(s) == {s[k].page : k \in DOMAIN s}

\* C20: along the yielded sequence the page field never decreases, and the
\* pages that occur are 1..k for some k >= 0.
C20_PagesContiguous ==
    /\ \A k \in DOMAIN out : k < Len(out) => out[k].page <= out[k + 1].page
    /\ \E k \in 0..Len(calls) : PagesOf(out) = 1..k
    /\ \E k \in 0..Len(calls) : PagesOf(presented) = 1..k

\* 25 records of pages 1 and 2 were collected
C20_Witness ==
    /\ pc = "exit"
    /\ PagesOf(presented) = {1, 2}
    /\ Len(presented) = 25

====
